---- MODULE Spec2Model ----
(***************************************************************************)
(* A model of the enviro struct-population engine (package enviro):       *)
(* Enviro.ParseEnv / ParseEnvWithPrefix walking the fields of a record in  *)
(* declaration order, parseTag, the lookup-key composition, the required   *)
(* and default handling, and setField with the ParseField hook and the     *)
(* primitive coercers.  Strings are TLA+ strings; the reflective walk is   *)
(* modelled over a table of struct types.                                  *)
(***************************************************************************)
EXTENDS Integers, Sequences, FiniteSets, TLC

VARIABLES
    prefix,      \* Enviro.prefix, the engine's base prefix
    target,      \* the argument handed to ParseEnv: its shape and struct type
    pre,         \* whether the record was pre-populated by the caller
    env,         \* the part of the process environment looked up so far
    stack,       \* the call stack of ParseEnvWithPrefix, innermost frame last
    store,       \* leaf fields written by the traversal, by field path
    alloc,       \* pointer-to-struct fields instantiated by the traversal
    entered,     \* history: the structural fields recursed into, and whether nil
    lookups,     \* history: the keys handed to os.LookupEnv and for which field
    hookCalls,   \* history: the ParseField invocations, in order
    cause,       \* history: the error setField returned to the failing field
    err,         \* the error travelling up / returned by ParseEnv
    pc,          \* "idle", "running", "unwinding", "done", "failed", "panic",
                 \* "overflow"; "tag"/"tagged", "file"/"filed" and
                 \* "set"/"returned"/"again" in the stand-alone runs
    tagIn,       \* input of the stand-alone parseTag or parseFileFormatTag run
    tagOut,      \* result of the stand-alone parseTag run
    call,        \* the stand-alone setField run: its field, input and outcome
    other        \* a second traversal on the same engine that is not running
                 \* now: its target, call stack, record and histories

vars == <<prefix, target, pre, env, stack, store, alloc, entered, lookups,
          hookCalls, cause, err, pc, tagIn, tagOut, call, other>>

-----------------------------------------------------------------------------
(* Bounds of the model.                                                    *)

\* deepest nesting of ParseEnvWithPrefix calls the model follows
MaxDepth == 4

\* most changes of the running traversal when two traversals share an engine
MaxSwitch == 3

\* most option tokens after "file:" in the options handed to
\* parseFileFormatTag on its own
MaxTokens == 2

\* most flag parts after the key in the tags handed to parseTag on its own
MaxFlags == 3

-----------------------------------------------------------------------------
(* package strings                                                         *)

Ch(s, i) == SubSeq(s, i, i)

HasPrefix(s, p) == Len(s) >= Len(p) /\ SubSeq(s, 1, Len(p)) = p

TrimPrefix(s, p) == IF HasPrefix(s, p) THEN SubSeq(s, Len(p) + 1, Len(s)) ELSE s

UpperCh(c) ==
    CASE c = "a" -> "A" [] c = "b" -> "B" [] c = "c" -> "C" [] c = "d" -> "D"
      [] c = "e" -> "E" [] c = "f" -> "F" [] c = "g" -> "G" [] c = "h" -> "H"
      [] c = "i" -> "I" [] c = "j" -> "J" [] c = "k" -> "K" [] c = "l" -> "L"
      [] c = "m" -> "M" [] c = "n" -> "N" [] c = "o" -> "O" [] c = "p" -> "P"
      [] c = "q" -> "Q" [] c = "r" -> "R" [] c = "s" -> "S" [] c = "t" -> "T"
      [] c = "u" -> "U" [] c = "v" -> "V" [] c = "w" -> "W" [] c = "x" -> "X"
      [] c = "y" -> "Y" [] c = "z" -> "Z" [] OTHER -> c

RECURSIVE ToUpper(_)
ToUpper(s) == IF s = "" THEN "" ELSE UpperCh(Ch(s, 1)) \o ToUpper(Tail(s))

IsSpace(c) == c \in {" ", "\t", "\n", "\r"}

RECURSIVE TrimLeft(_)
TrimLeft(s) == IF s # "" /\ IsSpace(Ch(s, 1)) THEN TrimLeft(Tail(s)) ELSE s

RECURSIVE TrimRight(_)
TrimRight(s) ==
    IF s # "" /\ IsSpace(Ch(s, Len(s))) THEN TrimRight(SubSeq(s, 1, Len(s) - 1)) ELSE s

TrimSpace(s) == TrimRight(TrimLeft(s))

\* index of the first occurrence of the one-character separator, 0 if none
Index(s, sep) ==
    IF \E i \in 1..Len(s) : Ch(s, i) = sep
    THEN CHOOSE i \in 1..Len(s) : Ch(s, i) = sep /\ \A j \in 1..(i - 1) : Ch(s, j) # sep
    ELSE 0

RECURSIVE Split(_, _)
Split(s, sep) ==
    LET i == Index(s, sep) IN
    IF i = 0 THEN <<s>>
    ELSE <<SubSeq(s, 1, i - 1)>> \o Split(SubSeq(s, i + 1, Len(s)), sep)

-----------------------------------------------------------------------------
(* package strconv                                                         *)

IsDigit(c) == c \in {"0", "1", "2", "3", "4", "5", "6", "7", "8", "9"}

DigitVal(c) ==
    CASE c = "0" -> 0 [] c = "1" -> 1 [] c = "2" -> 2 [] c = "3" -> 3 [] c = "4" -> 4
      [] c = "5" -> 5 [] c = "6" -> 6 [] c = "7" -> 7 [] c = "8" -> 8 [] c = "9" -> 9

RECURSIVE Digits(_, _)
Digits(s, acc) == IF s = "" THEN acc ELSE Digits(Tail(s), acc * 10 + DigitVal(Ch(s, 1)))

\* a decimal text without its leading zeros
RECURSIVE StripZeros(_)
StripZeros(s) == IF Len(s) > 1 /\ Ch(s, 1) = "0" THEN StripZeros(Tail(s)) ELSE s

\* a <= b for two digit texts of the same length
RECURSIVE LexLeq(_, _)
LexLeq(a, b) ==
    IF a = "" THEN TRUE
    ELSE IF Ch(a, 1) = Ch(b, 1) THEN LexLeq(Tail(a), Tail(b))
         ELSE DigitVal(Ch(a, 1)) < DigitVal(Ch(b, 1))

\* a <= b for two decimal texts without leading zeros; the magnitudes of 32
\* and 64 bit literals are compared as texts, digit by digit
DecLeq(a, b) == Len(a) < Len(b) \/ (Len(a) = Len(b) /\ LexLeq(a, b))

\* 1<<bits - 1
MaxUint(bits) ==
    CASE bits = 8  -> "255"
      [] bits = 16 -> "65535"
      [] bits = 32 -> "4294967295"
      [] OTHER     -> "18446744073709551615"

\* 1<<(bits-1) - 1
MaxInt(bits) ==
    CASE bits = 8  -> "127"
      [] bits = 16 -> "32767"
      [] bits = 32 -> "2147483647"
      [] OTHER     -> "9223372036854775807"

\* 1<<(bits-1), the magnitude of the least value
MinIntMag(bits) ==
    CASE bits = 8  -> "128"
      [] bits = 16 -> "32768"
      [] bits = 32 -> "2147483648"
      [] OTHER     -> "9223372036854775808"

\* a range check that ignores the bit size it is given
InRangeWidest(neg, mag, bits) == DecLeq(mag, IF neg THEN MinIntMag(64) ELSE MaxInt(64))

\* the magnitude fits a signed integer of that many bits
InRange(neg, mag, bits) == DecLeq(mag, IF neg THEN MinIntMag(bits) ELSE MaxInt(bits))

\* the integer of a sign and a magnitude: a number up to nine digits, the
\* decimal text beyond that
IntOf(neg, mag) ==
    IF Len(mag) <= 9
    THEN [k |-> "int", s |-> "", n |-> IF neg THEN 0 - Digits(mag, 0) ELSE Digits(mag, 0),
          b |-> FALSE, els |-> <<>>]
    ELSE [k |-> "int", s |-> (IF neg THEN "-" ELSE "") \o mag, n |-> 0,
          b |-> FALSE, els |-> <<>>]

AllDigits(s) == s # "" /\ \A i \in 1..Len(s) : IsDigit(Ch(s, i))

\* a leading sign, and the text after it
IsSigned(s) == s # "" /\ Ch(s, 1) \in {"+", "-"}

IsNeg(s) == s # "" /\ Ch(s, 1) = "-"

Unsigned(s) == IF IsSigned(s) THEN Tail(s) ELSE s

Parsed(v) == [ok |-> TRUE, v |-> v, why |-> ""]

NotParsed(why) ==
    [ok |-> FALSE, v |-> [k |-> "int", s |-> "", n |-> 0, b |-> FALSE, els |-> <<>>],
     why |-> why]

\* the integer of a sign and a digit text, if the bit size holds it
Ranged(neg, mag, bits) ==
    IF InRange(neg, mag, bits) THEN Parsed(IntOf(neg, mag))
    ELSE NotParsed("strconv.ErrRange")

\* strconv.ParseInt(s, 10, bits): [ok, v, why]
ParseInt(s, bits) ==
    IF ~AllDigits(Unsigned(s)) THEN NotParsed("strconv.ErrSyntax")
    ELSE Ranged(IsNeg(s), StripZeros(Unsigned(s)), bits)

\* the natural number of a digit text, if the bit size holds it
RangedUint(mag, bits) ==
    IF DecLeq(mag, MaxUint(bits)) THEN Parsed(IntOf(FALSE, mag))
    ELSE NotParsed("strconv.ErrRange")

\* strconv.ParseUint(s, 10, bits): [ok, v, why]; a sign is a syntax error
ParseUint(s, bits) ==
    IF ~AllDigits(s) THEN NotParsed("strconv.ErrSyntax")
    ELSE RangedUint(StripZeros(s), bits)

\* strconv.ParseBool(s): [ok, b, why]
ParseBool(s) ==
    IF s \in {"1", "t", "T", "TRUE", "true", "True"}
    THEN [ok |-> TRUE, b |-> TRUE, why |-> ""]
    ELSE IF s \in {"0", "f", "F", "FALSE", "false", "False"}
         THEN [ok |-> TRUE, b |-> FALSE, why |-> ""]
         ELSE [ok |-> FALSE, b |-> FALSE, why |-> "strconv.ErrSyntax"]

\* a decimal literal: digits with at most one point among them
IsDecimal(body) ==
    /\ \A i \in 1..Len(body) : IsDigit(Ch(body, i)) \/ Ch(body, i) = "."
    /\ \E i \in 1..Len(body) : IsDigit(Ch(body, i))
    /\ Len(Split(body, ".")) <= 2

\* strconv.ParseFloat(s, bits), for decimal literals without exponent, all of
\* them in the range of both sizes: [ok, v, why]; v is the float nearest to
\* the literal, named by the literal
ParseFloat(s, bits) ==
    IF IsDecimal(Unsigned(s))
    THEN [ok |-> TRUE, why |-> "",
          v  |-> [k |-> "float", s |-> (IF IsNeg(s) THEN "-" ELSE "") \o Unsigned(s),
                  n |-> 0, b |-> FALSE, els |-> <<>>]]
    ELSE NotParsed("strconv.ErrSyntax")

-----------------------------------------------------------------------------
(* Errors.  An error is its unwrap chain, outermost layer first; a layer   *)
(* carries the environment key its message names ("" when it names none).  *)

NoErr == <<>>

Layer(kind, key) == [kind |-> kind, key |-> key]

InvalidTarget == <<Layer("config must be a pointer to a struct", "")>>

MissingRequired(key) == <<Layer("missing required environment variable", key)>>

EmptyRequired(key) == <<Layer("empty required environment variable", key)>>

\* a message that names the key and formats the cause away
ConversionFailureFlat(key, e) == <<Layer("failed to parse environment variable", key)>>

\* fmt.Errorf("failed to parse environment variable %s: %w", KEY, err)
ConversionFailure(key, e) == <<Layer("failed to parse environment variable", key)>> \o e

Cause(why) == <<Layer(why, "")>>

-----------------------------------------------------------------------------
(* Values of leaf fields.  A pointer field holds Nil or its pointee; an     *)
(* integer is a number, or its decimal text beyond nine digits.            *)

Val(k, s, n, b) == [k |-> k, s |-> s, n |-> n, b |-> b, els |-> <<>>]

\* a slice and its elements
SliceVal(els) == [k |-> "slice", s |-> "", n |-> 0, b |-> FALSE, els |-> els]

Nil == Val("nil", "", 0, FALSE)

StrVal(s) == Val("string", s, 0, FALSE)

IntVal(n) == Val("int", "", n, FALSE)

BoolVal(b) == Val("bool", "", 0, b)

\* a struct value nobody wrote to
ZeroStruct == Val("struct", "", 0, FALSE)

\* what the model's ParseField implementation leaves in its receiver
HookVal(raw) == Val("parsed", raw, 0, FALSE)

\* reflect.New(elemType).Elem(): the zero value of a kind
Zero(kind) ==
    CASE kind = "string" -> StrVal("")
      [] kind = "int"    -> IntVal(0)
      [] kind = "uint"   -> IntVal(0)
      [] kind = "slice"  -> SliceVal(<<>>)
      [] kind = "map"    -> Val("map", "", 0, FALSE)
      [] kind = "bool"   -> BoolVal(FALSE)
      [] kind = "float"  -> Val("float", "0", 0, FALSE)
      [] OTHER           -> ZeroStruct

\* the value a caller put into a field of that kind before the call
Preset(kind) ==
    CASE kind = "string" -> StrVal("old")
      [] kind = "int"    -> IntVal(99)
      [] kind = "uint"   -> IntVal(99)
      [] kind = "slice"  -> SliceVal(<<Val("elem", "old", 0, FALSE)>>)
      [] kind = "map"    -> Val("map", "old", 0, FALSE)
      [] kind = "bool"   -> BoolVal(TRUE)
      [] kind = "float"  -> Val("float", "9.5", 0, FALSE)
      [] OTHER           -> Val("struct", "old", 0, FALSE)

-----------------------------------------------------------------------------
(* The struct types of the model: reflect.StructField per declared field.  *)
(* kind is the reflect.Kind of the field type, or of its pointee when ptr; *)
(* elem names the struct type for kind "struct" ("" for a struct that is   *)
(* no record of the table); hook says that the pointer to the type         *)
(* implements ParseField; canSet is reflect.Value.CanSet (exported); ident  *)
(* is the exact type where the code compares types ("" otherwise); el is   *)
(* the element type of a slice, as a one-element sequence.                 *)

Fld(tag, def, opt, kind, bits, ptr, hook, elem, canSet) ==
    [tag |-> tag, def |-> def, opt |-> opt, kind |-> kind, bits |-> bits,
     ptr |-> ptr, hook |-> hook, elem |-> elem, canSet |-> canSet,
     ident |-> "", el |-> <<>>]

Leaf(tag, kind) == Fld(tag, "", "", kind, 64, FALSE, FALSE, "", TRUE)

LeafDef(tag, def, kind) == Fld(tag, def, "", kind, 64, FALSE, FALSE, "", TRUE)

HookLeaf(tag, kind, ptr) == Fld(tag, "", "", kind, 64, ptr, TRUE, "", TRUE)

Nested(tag, elem, ptr) == Fld(tag, "", "", "struct", 0, ptr, FALSE, elem, TRUE)

Types ==
    [ Simple  |-> << Leaf("name", "string"), Leaf("age", "int"),
                     Leaf("is_married", "bool") >>,
      Address |-> << Leaf("city", "string"), Leaf("no", "int"),
                     Leaf("zip,omitprefix", "int") >>,
      Person  |-> << Leaf("name", "string"), Nested("nested:addr", "Address", FALSE),
                     Leaf("tz,required,omitprefix", "string") >>,
      Deep    |-> << Nested("nested:in", "Person", TRUE), Leaf("id", "int") >>,
      Server  |-> << Leaf("port,required", "int"),
                     LeafDef("host,required", "h", "string"),
                     LeafDef("lvl", "8", "int"),
                     LeafDef("dbg", "x", "bool") >>,
      Custom  |-> << HookLeaf("start", "struct", FALSE), HookLeaf("hs", "string", FALSE),
                     HookLeaf("hi", "int", TRUE), Leaf("n", "int") >>,
      Loose   |-> << Leaf("a,omitprefix,required", "string"),
                     Leaf("b,foo,required", "string"),
                     Nested("", "Address", FALSE),
                     Fld("", "", "", "struct", 0, TRUE, FALSE, "Address", FALSE),
                     Leaf("", "int") >>,
      Ptrs    |-> << Fld("pp", "", "", "int", 8, TRUE, FALSE, "", TRUE),
                     Leaf("nested:x", "int"),
                     Leaf("after", "string") >>,
      Alt     |-> << Nested("prefix:addr", "Address", FALSE),
                     Leaf("z", "string") >>,
      Rates   |-> << Leaf("rate", "float") >>,
      Job     |-> << Leaf("", "int"), Nested("nested:in", "Rates", FALSE),
                     Leaf("id", "int") >>,
      Node    |-> << Leaf("v", "string"), Nested("", "Node", TRUE) >> ]

TypeNames == DOMAIN Types

\* the arguments a caller may hand to ParseEnv
Targets ==
    [shape : {"ptrStruct"}, typ : TypeNames]
      \cup [shape : {"nil", "nonPtr", "nilPtr", "ptrNonStruct"}, typ : {"Simple"}]

\* the base prefixes a caller may set
Prefixes == {"", "app", "My"}

\* the values the environment may hold for a key
EnvVals == {"", "1", "x", "300"}

-----------------------------------------------------------------------------
(* Tag parsing and key composition.                                        *)

\* parseTag(tag): the key and the two flags, read by position
parseTag(tag) ==
    LET parts == Split(tag, ",")
        key   == TrimSpace(parts[1])
    IN  IF Len(parts) > 2
        THEN [key |-> key,
              required   |-> TrimSpace(parts[2]) = "required",
              omitprefix |-> TrimSpace(parts[3]) = "omitprefix"]
        ELSE IF Len(parts) > 1
             THEN [key |-> key,
                   required   |-> TrimSpace(parts[2]) = "required",
                   omitprefix |-> TrimSpace(parts[2]) = "omitprefix"]
             ELSE [key |-> key, required |-> FALSE, omitprefix |-> FALSE]

\* a classification that takes only the nesting directive for structural
IsStructuralTagNestedOnly(tag) == HasPrefix(tag, "nested:")

\* the tag sends the field to the structural branch of the loop
IsStructuralTag(tag) == tag = "" \/ HasPrefix(tag, "nested:")

\* the field is a struct or a pointer to a struct
IsStructLike(f) == f.kind = "struct"

\* a composition that forgets the caller's prefix
NestedPrefixDropsParent(p, tag) == TrimPrefix(tag, "nested:")

\* envPrefix handed to the recursive call for a nested struct
NestedPrefix(p, tag) ==
    (IF p # "" THEN p \o "_" ELSE "") \o TrimPrefix(tag, "nested:")

\* a composition that prepends the prefix whatever the flag says
EnvKeyAlwaysPrefixed(p, pt) == IF p # "" THEN p \o "_" \o pt.key ELSE pt.key

\* envKey of a leaf field before upper-casing
EnvKey(p, pt) ==
    IF ~pt.omitprefix /\ p # "" THEN p \o "_" \o pt.key ELSE pt.key

\* a check that lets an absent key through
RequiredErrEmptyOnly(required, exists, envValue, key) ==
    IF required /\ exists /\ envValue = "" THEN EmptyRequired(key) ELSE NoErr

\* the two required checks, in the order of the code; NoErr when both pass
RequiredErr(required, exists, envValue, key) ==
    IF required /\ ~exists THEN MissingRequired(key)
    ELSE IF required /\ envValue = "" THEN EmptyRequired(key)
    ELSE NoErr

\* a resolution that never falls back to the default
WithDefaultIgnored(envValue, envDef) == envValue

\* the value handed on after the default is considered
WithDefault(envValue, envDef) == IF envValue = "" THEN envDef ELSE envValue

\* a test that skips every field left with an empty string
ShouldSetNonEmpty(exists, value) == value # ""

\* whether setField is called at all
ShouldSet(exists, value) == exists \/ value # ""

-----------------------------------------------------------------------------
(* time.ParseDuration, for literals of one number and one unit, and        *)
(* net.ParseIP and net.ParseMAC, for dotted IPv4 addresses and for six     *)
(* groups of two hexadecimal digits.                                       *)

\* the decimal text of a natural number
RECURSIVE Itoa(_)
Itoa(n) ==
    IF n < 10 THEN SubSeq("0123456789", n + 1, n + 1)
    ELSE Itoa(n \div 10) \o SubSeq("0123456789", (n % 10) + 1, (n % 10) + 1)

\* how many digits a text starts with
RECURSIVE LeadingDigits(_)
LeadingDigits(s) ==
    IF s # "" /\ IsDigit(Ch(s, 1)) THEN 1 + LeadingDigits(Tail(s)) ELSE 0

Units == {"ns", "us", "ms", "s", "m", "h"}

\* the nanoseconds of num units, as a decimal text
Nanoseconds(num, unit) ==
    StripZeros(CASE unit = "ns" -> num
                 [] unit = "us" -> num \o "000"
                 [] unit = "ms" -> num \o "000000"
                 [] unit = "s"  -> num \o "000000000"
                 [] unit = "m"  -> Itoa(Digits(num, 0) * 60) \o "000000000"
                 [] unit = "h"  -> Itoa(Digits(num, 0) * 3600) \o "000000000")

\* a number and its unit: the duration, if it is one
DurationOf(neg, num, unit) ==
    IF num = "" THEN NotParsed("time: invalid duration")
    ELSE IF unit = "" THEN NotParsed("time: missing unit in duration")
    ELSE IF unit \notin Units THEN NotParsed("time: unknown unit in duration")
    ELSE IF ~InRange(neg, Nanoseconds(num, unit), 64) THEN NotParsed("time: invalid duration")
    ELSE Parsed(IntOf(neg, Nanoseconds(num, unit)))

\* the leading number of a text and what follows it
SplitNumber(neg, body, nd) == DurationOf(neg, SubSeq(body, 1, nd), SubSeq(body, nd + 1, Len(body)))

\* time.ParseDuration(s): [ok, v, why]
ParseDuration(s) ==
    IF Unsigned(s) = "0" THEN Parsed(IntOf(FALSE, "0"))
    ELSE SplitNumber(IsNeg(s), Unsigned(s), LeadingDigits(Unsigned(s)))

\* a decimal byte of an IPv4 address: up to three digits, no leading zero
IsOctet(part) ==
    /\ AllDigits(part) /\ Len(part) <= 3
    /\ (Len(part) > 1 => Ch(part, 1) # "0")
    /\ Digits(part, 0) <= 255

\* the 16-byte form of the IPv4 address of four decimal bytes
IPv4(parts) ==
    IF Len(parts) = 4 /\ \A i \in 1..4 : IsOctet(parts[i])
    THEN [ok |-> TRUE,
          v  |-> SliceVal([i \in 1..16 |->
                              IF i <= 10 THEN IntVal(0)
                              ELSE IF i <= 12 THEN IntVal(255)
                              ELSE IntVal(Digits(parts[i - 12], 0))])]
    ELSE [ok |-> FALSE, v |-> SliceVal(<<>>)]

\* net.ParseIP(s): [ok, v]
ParseIP(s) == IPv4(Split(s, "."))

HexDigits == "0123456789abcdef"

IsHex(c) == \E i \in 1..Len(HexDigits) : Ch(HexDigits, i) = c \/ UpperCh(Ch(HexDigits, i)) = c

HexVal(c) == (CHOOSE i \in 1..Len(HexDigits) : Ch(HexDigits, i) = c \/ UpperCh(Ch(HexDigits, i)) = c) - 1

IsHexByte(part) == Len(part) = 2 /\ IsHex(Ch(part, 1)) /\ IsHex(Ch(part, 2))

\* the bytes of six groups of two hexadecimal digits
EUI48(sep, parts) ==
    IF sep \in {":", "-"} /\ Len(parts) = 6 /\ \A i \in 1..6 : IsHexByte(parts[i])
    THEN [ok |-> TRUE,
          v  |-> SliceVal([i \in 1..6 |->
                              IntVal(HexVal(Ch(parts[i], 1)) * 16 + HexVal(Ch(parts[i], 2)))])]
    ELSE [ok |-> FALSE, v |-> SliceVal(<<>>)]

\* net.ParseMAC(s): [ok, v]
ParseMAC(s) ==
    IF Len(s) > 2 THEN EUI48(Ch(s, 3), Split(s, Ch(s, 3)))
    ELSE [ok |-> FALSE, v |-> SliceVal(<<>>)]

-----------------------------------------------------------------------------
(* setField and the coercers.  A coercer yields [err, val].                *)

Ok(v) == [err |-> NoErr, val |-> v]

Fail(why, v) == [err |-> Cause(why), val |-> v]

setStringField(tgt, value) == Ok(StrVal(value))

\* a type test that looks at the underlying representation only
IsDurationByKind(ident) == ident \in {"time.Duration", "DurationAlias"}

\* field.Type() == reflect.TypeOf(time.Duration(0))
IsDuration(ident) == ident = "time.Duration"

\* if err != nil { return err }; field.SetInt(i)
SetParsed(tgt, r) == IF r.ok THEN Ok(r.v) ELSE Fail(r.why, tgt)

setIntField(tgt, value, bits, ident) ==
    SetParsed(tgt, IF IsDuration(ident) THEN ParseDuration(value) ELSE ParseInt(value, bits))

setUintField(tgt, value, bits) == SetParsed(tgt, ParseUint(value, bits))

setFloatField(tgt, value, bits) == SetParsed(tgt, ParseFloat(value, bits))

setBoolField(tgt, value) ==
    LET r == ParseBool(value) IN
    IF r.ok THEN Ok(BoolVal(r.b)) ELSE Fail(r.why, tgt)

\* a decoder choice that falls back to json when no option is given
DecoderOrJson(opt) == IF opt = "" THEN "json" ELSE IF opt \in {"json", "yaml"} THEN opt ELSE "-"

\* switch opt { case "json": ...; case "yaml": ... }: the decoder, "-" if none
Decoder(opt) == IF opt \in {"json", "yaml"} THEN opt ELSE "-"

\* setJsonField / setYamlField: the external decoder gets the whole value; its
\* verdict is extOk
Decode(tgt, value, decoder, extOk) ==
    IF extOk THEN Ok(Val("decoded", value, 0, FALSE))
    ELSE Fail("failed to unmarshal", tgt)

\* a struct that is none of the recognized ones: json and yaml go to the
\* external decoder; anything else is unsupported
setStructField(tgt, value, opt, extOk) ==
    IF Decoder(opt) # "-" THEN Decode(tgt, value, Decoder(opt), extOk)
    ELSE Fail("unsupported format", tgt)

setMapField(tgt, value, opt, extOk) ==
    IF Decoder(opt) # "-" THEN Decode(tgt, value, Decoder(opt), extOk)
    ELSE Fail("unsupported format", tgt)

\* a capability test consulted only where no built-in coercer applies
ImplementsStructOnly(f) == f.hook /\ f.kind = "struct"

\* target.Addr().Type().Implements(parserType)
Implements(f) == f.hook

\* the ParseField implementation of the target type, supplied by the user:
\* whether it accepts the value is extOk
ParseFieldHook(tgt, value, extOk) ==
    IF extOk THEN Ok(HookVal(value)) ELSE Fail("ParseField error", tgt)

\* strings.TrimSpace(elem), applied to string, integer and bool pieces
Piece(elem) == TrimSpace(elem)

SliceElemKinds == {"string", "int", "uint", "float", "bool", "slice", "struct"}

\* a builder that puts the new elements in the place of the old ones
ReplaceSlice(tgt, rs, bad) ==
    IF bad # {}
    THEN [err |-> rs[CHOOSE i \in bad : \A j \in bad : i <= j].err, val |-> tgt]
    ELSE Ok(SliceVal([i \in 1..Len(rs) |-> rs[i].val]))

\* a builder that appends the elements coerced before the first failure
AppendSlicePartial(tgt, rs, bad) ==
    IF bad # {}
    THEN [err |-> rs[CHOOSE i \in bad : \A j \in bad : i <= j].err,
          val |-> SliceVal(tgt.els \o [i \in 1..((CHOOSE i \in bad : \A j \in bad : i <= j) - 1)
                                          |-> rs[i].val])]
    ELSE Ok(SliceVal(tgt.els \o [i \in 1..Len(rs) |-> rs[i].val]))

\* a split that takes the whole value for one piece
ElementsWhole(value) == <<value>>

\* elements := strings.Split(value, ",")
Elements(value) == Split(value, ",")

\* setSliceField: split on ",", coerce every piece into a new element, append
\* the elements to the field; the first failure returns with nothing set
AppendSlice(tgt, rs, bad) ==
    IF bad # {}
    THEN [err |-> rs[CHOOSE i \in bad : \A j \in bad : i <= j].err, val |-> tgt]
    ELSE Ok(SliceVal(tgt.els \o [i \in 1..Len(rs) |-> rs[i].val]))

Failed(rs) == {i \in 1..Len(rs) : rs[i].err # NoErr}

\* an address parsed from the whole value
SetAddress(tgt, r, why) == IF r.ok THEN Ok(r.v) ELSE Fail(why, tgt)

RECURSIVE setSliceField(_, _, _, _, _)
RECURSIVE setElements(_, _, _, _, _)

\* the loop over the pieces: every piece into a new element of the slice
setElements(el, tgt, elements, opt, extOk) ==
    LET rs == [i \in 1..Len(elements) |->
                  IF Implements(el) THEN ParseFieldHook(Zero(el.kind), elements[i], extOk)
                  ELSE CASE el.kind = "string" ->
                              setStringField(Zero("string"), Piece(elements[i]))
                         [] el.kind = "int"    ->
                              setIntField(Zero("int"), Piece(elements[i]), el.bits, el.ident)
                         [] el.kind = "uint"   ->
                              setUintField(Zero("uint"), Piece(elements[i]), el.bits)
                         [] el.kind = "float"  ->
                              setFloatField(Zero("float"), Piece(elements[i]), el.bits)
                         [] el.kind = "bool"   ->
                              setBoolField(Zero("bool"), Piece(elements[i]))
                         [] el.kind = "slice"  ->
                              setSliceField(el, Zero("slice"), elements[i], opt, extOk)
                         [] el.kind = "struct" ->
                              setStructField(Zero("struct"), elements[i], opt, extOk)]
    IN  AppendSlice(tgt, rs, Failed(rs))

setSliceField(f, tgt, value, opt, extOk) ==
    IF ~Implements(f.el[1]) /\ f.el[1].kind \notin SliceElemKinds
    THEN Fail("unsupported slice element type", tgt)
    ELSE IF ~Implements(f.el[1]) /\ f.el[1].kind = "uint" /\ f.ident = "net.IP"
    THEN SetAddress(tgt, ParseIP(value), "invalid IP address")
    ELSE IF ~Implements(f.el[1]) /\ f.el[1].kind = "uint" /\ f.ident = "[]net.HardwareAddr"
    THEN SetAddress(tgt, ParseMAC(value), "net.ParseMAC error")
    ELSE setElements(f.el[1], tgt, Elements(value), opt, extOk)

\* a setter that stores the target whatever the coercer returned
FieldSetAlways(e) == TRUE

\* SET_FIELD: field.Set is reached only when the coercer returned no error
FieldSet(e) == e = NoErr

\* the target the coercer works on is the field itself, or what a non-nil
\* pointer field points to, and not a new value
Aliased(f, cur) == ~f.ptr \/ cur # Nil

\* the end of setField: the coerced target goes into the field if no error;
\* a target that is the field holds what the coercer left in it
SetResult(f, cur, r) ==
    [err     |-> r.err,
     val     |-> IF FieldSet(r.err) \/ Aliased(f, cur) THEN r.val ELSE cur,
     written |-> FieldSet(r.err),
     hooked  |-> Implements(f)]

\* the hook if there is one, else the coercer of the kind
Coerce(f, tgt, value, extOk) ==
    IF Implements(f) THEN ParseFieldHook(tgt, value, extOk)
    ELSE CASE f.kind = "string" -> setStringField(tgt, value)
           [] f.kind = "int"    -> setIntField(tgt, value, f.bits, f.ident)
           [] f.kind = "uint"   -> setUintField(tgt, value, f.bits)
           [] f.kind = "float"  -> setFloatField(tgt, value, f.bits)
           [] f.kind = "bool"   -> setBoolField(tgt, value)
           [] f.kind = "struct" -> setStructField(tgt, value, f.opt, extOk)
           [] f.kind = "slice"  -> setSliceField(f, tgt, value, f.opt, extOk)
           [] f.kind = "map"    -> setMapField(tgt, value, f.opt, extOk)
           [] OTHER             -> Fail("unsupported field type", tgt)

\* setField(field, value, opt): [err, val, written, hooked], val the field
\* afterwards
setField(f, cur, value, extOk) ==
    SetResult(f, cur, Coerce(f, IF f.ptr /\ cur = Nil THEN Zero(f.kind) ELSE cur, value, extOk))

\* whether the outcome of setField depends on code outside the engine
RECURSIVE ExternalWith(_, _)
ExternalWith(f, opt) ==
    \/ f.hook
    \/ f.kind \in {"struct", "map"} /\ opt \in {"json", "yaml"}
    \/ f.kind = "slice" /\ ExternalWith(f.el[1], opt)

External(f) == ExternalWith(f, f.opt)

-----------------------------------------------------------------------------
(* The traversal.                                                          *)

NoTag == [key |-> "", required |-> FALSE, omitprefix |-> FALSE]

\* no stand-alone setField run
NoCall == [f |-> Leaf("", "string"), value |-> "", cur |-> Nil, extOk |-> TRUE,
           out |-> [err |-> NoErr, val |-> Nil, written |-> FALSE, hooked |-> FALSE],
           first |-> [err |-> NoErr, val |-> Nil, written |-> FALSE, hooked |-> FALSE]]

\* a loop over the fields that starts at the second one
FrameFromSecond(typ, p, path, fresh) ==
    [typ |-> typ, i |-> 2, prefix |-> p, path |-> path, fresh |-> fresh]

\* a call of ParseEnvWithPrefix: the struct type, the loop index (from 1),
\* the prefix argument, the path of the record from the root, and whether the
\* record was instantiated by this traversal
Frame(typ, p, path, fresh) ==
    [typ |-> typ, i |-> 1, prefix |-> p, path |-> path, fresh |-> fresh]

Top == stack[Len(stack)]

Pop == SubSeq(stack, 1, Len(stack) - 1)

NumField(typ) == Len(Types[typ])

\* the field the innermost loop is at
CurField == Types[Top.typ][Top.i]

CurPath == Append(Top.path, Top.i)

Scanning == pc = "running" /\ stack # <<>> /\ Top.i <= NumField(Top.typ)

\* the loop index of the innermost frame moves on
Advance == [stack EXCEPT ![Len(stack)].i = @ + 1]

\* what a leaf field held when ParseEnv was called
PreValue(f, fresh) ==
    IF pre /\ ~fresh THEN Preset(f.kind)
    ELSE IF f.ptr THEN Nil ELSE Zero(f.kind)

\* what a leaf field holds now
FieldValue(path, f, fresh) ==
    IF path \in DOMAIN store THEN store[path] ELSE PreValue(f, fresh)

Absent == [exists |-> FALSE, value |-> ""]

Present(v) == [exists |-> TRUE, value |-> v]

\* os.LookupEnv(key): the environment does not change during the traversal,
\* so a key looked up before answers as before
LookupEnv(key) ==
    IF key \in DOMAIN env THEN {env[key]}
    ELSE {Absent} \cup {Present(v) : v \in EnvVals}

Remember(key, r) == [k \in DOMAIN env \cup {key} |-> IF k = key THEN r ELSE env[k]]

\* a caller that drops the error of the nested call
NestedIgnored(e) == FALSE

\* after a nested call returned e: does the caller return it
NestedReturns(e) == e # NoErr

\* an engine that keeps the prefix composed for the nested call
EnginePrefixLeaks(p, envPrefix) == envPrefix

\* Enviro.prefix after a nested call was made with envPrefix: the composed
\* prefix is a local of the loop, the field of the engine is not assigned
EnginePrefix(p, envPrefix) == p

\* a traversal as it is set aside while another one runs; turns counts the
\* times the scheduler changed the running traversal
Context(t, st, sto, al, en, lo, ho, ca, e, p) ==
    [target |-> t, stack |-> st, store |-> sto, alloc |-> al, entered |-> en,
     lookups |-> lo, hookCalls |-> ho, cause |-> ca, err |-> e, pc |-> p,
     turns |-> 0]

\* no second traversal
NoOther ==
    Context([shape |-> "nil", typ |-> "Simple"], <<>>, [q \in {} |-> Nil], {},
            <<>>, <<>>, <<>>, NoErr, NoErr, "none")

\* a second traversal that was not started yet
Idle(t) ==
    Context(t, <<>>, [q \in {} |-> Nil], {}, <<>>, <<>>, <<>>, NoErr, NoErr, "idle")

\* the traversal that is running now
Current ==
    Context(target, stack, store, alloc, entered, lookups, hookCalls, cause, err, pc)

\* Enviro.SetEnvPrefix, called before the traversal
SetEnvPrefix ==
    /\ pc = "idle"
    /\ prefix = ""
    /\ \E p \in Prefixes \ {""} : prefix' = p
    /\ UNCHANGED <<other, target, pre, env, stack, store, alloc, entered, lookups,
                   hookCalls, cause, err, pc, tagIn, tagOut, call>>

\* Enviro.ParseEnv: the entry of ParseEnvWithPrefix with the base prefix.
\* reflect.Value.NumField panics on a value that is no struct.
ParseEnv ==
    /\ pc = "idle"
    /\ IF target.shape \in {"nil", "nonPtr", "nilPtr"}
       THEN pc' = "failed" /\ err' = InvalidTarget /\ stack' = stack
       ELSE IF target.shape = "ptrNonStruct"
            THEN pc' = "panic" /\ err' = err /\ stack' = stack
            ELSE /\ pc' = "running"
                 /\ err' = err
                 /\ stack' = <<Frame(target.typ, prefix, <<>>, FALSE)>>
    /\ UNCHANGED <<other, prefix, target, pre, env, store, alloc, entered, lookups,
                   hookCalls, cause, tagIn, tagOut, call>>

\* an untagged or nested-tagged field that is not a settable struct: continue
Skip ==
    /\ Scanning
    /\ IsStructuralTag(CurField.tag)
    /\ ~(CurField.canSet /\ IsStructLike(CurField))
    /\ stack' = Advance
    /\ UNCHANGED <<other, prefix, target, pre, env, store, alloc, entered, lookups,
                   hookCalls, cause, err, pc, tagIn, tagOut, call>>

\* a pointer-to-struct field holds nil: nobody instantiated it, neither the
\* caller before the call nor the traversal
IsNilStruct(path, fresh) == ~(pre /\ ~fresh) /\ path \notin alloc

\* an instantiation that replaces the record the pointer already holds
InstantiatesAlways(f, isNil) == f.ptr

\* nestedStruct.Kind() == reflect.Ptr && nestedStruct.IsNil()
Instantiates(f, isNil) == f.ptr /\ isNil

\* an untagged or nested-tagged settable struct: instantiate a nil pointer
\* and call ParseEnvWithPrefix on the nested record
Enter ==
    /\ Scanning
    /\ IsStructuralTag(CurField.tag)
    /\ CurField.canSet /\ IsStructLike(CurField)
    /\ Len(stack) < MaxDepth
    /\ LET f      == CurField
           wasNil == f.ptr /\ IsNilStruct(CurPath, Top.fresh)
       IN  /\ alloc' = IF Instantiates(f, wasNil) THEN alloc \cup {CurPath} ELSE alloc
           /\ entered' = Append(entered, [path |-> CurPath, wasNil |-> wasNil])
           /\ stack' = Append(stack,
                  Frame(f.elem, NestedPrefix(Top.prefix, f.tag), CurPath,
                        Top.fresh \/ wasNil))
           /\ prefix' = EnginePrefix(prefix, NestedPrefix(Top.prefix, f.tag))
    /\ UNCHANGED <<other, target, pre, env, store, lookups, hookCalls,
                   cause, err, pc, tagIn, tagOut, call>>

\* a leaf field: key, lookup, required checks, default, setField
LeafStep ==
    /\ Scanning
    /\ ~IsStructuralTag(CurField.tag)
    /\ LET f   == CurField
           pt  == parseTag(f.tag)
           key == ToUpper(EnvKey(Top.prefix, pt))
       IN  \E r \in LookupEnv(key) :
           \E extOk \in (IF External(f) THEN BOOLEAN ELSE {TRUE}) :
             LET req   == RequiredErr(pt.required, r.exists, r.value, key)
                 value == WithDefault(r.value, f.def)
                 cur   == FieldValue(CurPath, f, Top.fresh)
                 sf    == setField(f, cur, value, extOk)
                 calls == req = NoErr /\ ShouldSet(r.exists, value)
                 e     == IF req # NoErr THEN req
                          ELSE IF calls /\ sf.err # NoErr
                               THEN ConversionFailure(key, sf.err)
                               ELSE NoErr
             IN  /\ env' = Remember(key, r)
                 /\ lookups' = Append(lookups, [path |-> CurPath, key |-> key])
                 /\ hookCalls' = IF calls /\ sf.hooked
                                 THEN Append(hookCalls, [path |-> CurPath, arg |-> value])
                                 ELSE hookCalls
                 /\ store' = IF calls /\ sf.written
                             THEN [q \in DOMAIN store \cup {CurPath} |->
                                     IF q = CurPath THEN sf.val ELSE store[q]]
                             ELSE store
                 /\ cause' = IF calls /\ sf.err # NoErr THEN sf.err ELSE cause
                 /\ err' = e
                 /\ IF e = NoErr
                    THEN stack' = Advance /\ pc' = pc
                    ELSE /\ stack' = Pop
                         /\ pc' = IF Len(stack) = 1 THEN "failed" ELSE "unwinding"
    /\ UNCHANGED <<other, prefix, target, pre, alloc, entered, tagIn, tagOut, call>>

\* the recursion outgrows the stack the runtime grants a goroutine: the
\* runtime aborts the process, ParseEnv never returns
Overflow ==
    /\ Scanning
    /\ IsStructuralTag(CurField.tag)
    /\ CurField.canSet /\ IsStructLike(CurField)
    /\ Len(stack) >= MaxDepth
    /\ pc' = "overflow"
    /\ UNCHANGED <<other, prefix, target, pre, env, stack, store, alloc, entered,
                   lookups, hookCalls, cause, err, tagIn, tagOut, call>>

\* a caller that goes on with the prefix its callee composed
ResumeWithCalleePrefix(caller, callee) ==
    [caller EXCEPT !.i = @ + 1, !.prefix = callee.prefix]

\* the caller's frame after the nested call returned nil: its own prefix, the
\* next field
Resume(caller, callee) == [caller EXCEPT !.i = @ + 1]

\* the loop of the innermost call is over: return nil; the caller continues
Return ==
    /\ pc = "running" /\ stack # <<>>
    /\ Top.i > NumField(Top.typ)
    /\ IF Len(stack) = 1
       THEN stack' = <<>> /\ pc' = "done"
       ELSE /\ stack' = [Pop EXCEPT ![Len(stack) - 1] = Resume(@, Top)]
            /\ pc' = pc
    /\ UNCHANGED <<other, prefix, target, pre, env, store, alloc, entered, lookups,
                   hookCalls, cause, err, tagIn, tagOut, call>>

\* a nested call returned an error: the caller returns it as it is
Propagate ==
    /\ pc = "unwinding" /\ stack # <<>>
    /\ IF NestedReturns(err)
       THEN /\ stack' = Pop
            /\ err' = err
            /\ pc' = IF Len(stack) = 1 THEN "failed" ELSE "unwinding"
       ELSE /\ stack' = Advance
            /\ err' = NoErr
            /\ pc' = "running"
    /\ UNCHANGED <<other, prefix, target, pre, env, store, alloc, entered, lookups,
                   hookCalls, cause, tagIn, tagOut, call>>

Init ==
    /\ prefix = ""
    /\ target \in Targets
    /\ pre \in BOOLEAN
    /\ env = [k \in {} |-> Absent]
    /\ stack = <<>>
    /\ store = [q \in {} |-> Nil]
    /\ alloc = {}
    /\ entered = <<>>
    /\ lookups = <<>>
    /\ hookCalls = <<>>
    /\ cause = NoErr
    /\ err = NoErr
    /\ pc = "idle"
    /\ tagIn = ""
    /\ tagOut = NoTag
    /\ call = NoCall
    /\ other = NoOther

Next ==
    \/ SetEnvPrefix
    \/ ParseEnv
    \/ Skip
    \/ Enter
    \/ LeafStep
    \/ Return
    \/ Propagate
    \/ Overflow

Spec == Init /\ [][Next]_vars

-----------------------------------------------------------------------------
(* Two traversals on one engine, on two distinct records, their steps      *)
(* interleaved: two goroutines calling ParseEnv on a shared *Enviro.       *)

\* the record types of the two targets
PairTypes == {"Job", "Ptrs"}

\* the scheduler sets the running traversal aside and lets the other one,
\* which has steps left, go on
Switch ==
    /\ other.pc \in {"idle", "running", "unwinding"}
    /\ other.turns < MaxSwitch
    /\ other' = [Current EXCEPT !.turns = other.turns + 1]
    /\ target' = other.target
    /\ stack' = other.stack
    /\ store' = other.store
    /\ alloc' = other.alloc
    /\ entered' = other.entered
    /\ lookups' = other.lookups
    /\ hookCalls' = other.hookCalls
    /\ cause' = other.cause
    /\ err' = other.err
    /\ pc' = other.pc
    /\ UNCHANGED <<prefix, pre, env, tagIn, tagOut, call>>

InitPair ==
    /\ prefix \in Prefixes
    /\ target \in [shape : {"ptrStruct"}, typ : PairTypes]
    /\ other \in {Idle(t) : t \in [shape : {"ptrStruct"}, typ : PairTypes]}
    /\ pre \in BOOLEAN
    /\ env = [k \in {} |-> Absent]
    /\ stack = <<>>
    /\ store = [q \in {} |-> Nil]
    /\ alloc = {}
    /\ entered = <<>>
    /\ lookups = <<>>
    /\ hookCalls = <<>>
    /\ cause = NoErr
    /\ err = NoErr
    /\ pc = "idle"
    /\ tagIn = ""
    /\ tagOut = NoTag
    /\ call = NoCall

NextPair ==
    \/ ParseEnv
    \/ Skip
    \/ Enter
    \/ LeafStep
    \/ Return
    \/ Propagate
    \/ Switch

SpecPair == InitPair /\ [][NextPair]_vars

\* a call that was made runs on: the caller calls ParseEnv, and every step of
\* the traversal that can be taken is taken

-----------------------------------------------------------------------------
(* parseTag on its own, over tags built from a key and up to MaxFlags      *)
(* flag parts.                                                             *)

TagKeys == {"k", "port"}

FlagParts == {"required", "omitprefix", "foo"}

FlagSeqs == UNION {[1..n -> FlagParts] : n \in 0..MaxFlags}

RECURSIVE JoinParts(_, _)
JoinParts(parts, sep) ==
    IF parts = <<>> THEN ""
    ELSE IF Len(parts) = 1 THEN parts[1]
         ELSE parts[1] \o sep \o JoinParts(Tail(parts), sep)

TagInputs == {JoinParts(<<k>> \o fs, ",") : k \in TagKeys, fs \in FlagSeqs}

RunParseTag ==
    /\ pc = "tag"
    /\ tagOut' = parseTag(tagIn)
    /\ pc' = "tagged"
    /\ UNCHANGED <<other, prefix, target, pre, env, stack, store, alloc, entered,
                   lookups, hookCalls, cause, err, tagIn, call>>

InitTag ==
    /\ prefix = ""
    /\ target = [shape |-> "ptrStruct", typ |-> "Simple"]
    /\ pre = FALSE
    /\ env = [k \in {} |-> Absent]
    /\ stack = <<>>
    /\ store = [q \in {} |-> Nil]
    /\ alloc = {}
    /\ entered = <<>>
    /\ lookups = <<>>
    /\ hookCalls = <<>>
    /\ cause = NoErr
    /\ err = NoErr
    /\ pc = "tag"
    /\ tagIn \in TagInputs
    /\ tagOut = NoTag
    /\ call = NoCall
    /\ other = NoOther

NextTag == RunParseTag

SpecTag == InitTag /\ [][NextTag]_vars

-----------------------------------------------------------------------------
(* parseFileFormatTag on its own, over options of up to MaxTokens tokens.  *)
(* The open flags are kept as the access mode and the three modifier bits, *)
(* the permissions as the octal text of their value.                       *)

\* flag = os.O_RDONLY / os.O_WRONLY / os.O_RDWR with no modifier bit
Flags(mode) == [mode |-> mode, create |-> FALSE, truncate |-> FALSE, append |-> FALSE]

\* an access mode that keeps the modifier bits set so far
AccessKeepsModifiers(flag, mode) == [flag EXCEPT !.mode = mode]

\* flag = os.O_xxx: the assignment drops what was accumulated
Access(flag, mode) == Flags(mode)

\* strconv.ParseUint(s, 8, 32): octal digits only, no sign, at most 2^32 - 1
\* (octal 37777777777)
ParseOctal(s) ==
    IF s = "" \/ \E i \in 1..Len(s) : Ch(s, i) \notin {"0", "1", "2", "3", "4", "5", "6", "7"}
    THEN [ok |-> FALSE, v |-> ""]
    ELSE IF Len(StripZeros(s)) > 11
            \/ (Len(StripZeros(s)) = 11 /\ Ch(StripZeros(s), 1) \notin {"1", "2", "3"})
         THEN [ok |-> FALSE, v |-> ""]
         ELSE [ok |-> TRUE, v |-> StripZeros(s)]

\* perm = os.FileMode(permValue) if the token parses, else nothing
Permission(out, r) == IF r.ok THEN [out EXCEPT !.perm = r.v] ELSE out

\* one token of the option: the switch on the trimmed token, the default
\* branch parsing the token as it was cut
ApplyOpt(out, opt) ==
    CASE TrimSpace(opt) = "ro"       -> [out EXCEPT !.flag = Access(@, "ro")]
      [] TrimSpace(opt) = "wo"       -> [out EXCEPT !.flag = Access(@, "wo")]
      [] TrimSpace(opt) = "rw"       -> [out EXCEPT !.flag = Access(@, "rw")]
      [] TrimSpace(opt) = "create"   -> [out EXCEPT !.flag.create = TRUE]
      [] TrimSpace(opt) = "truncate" -> [out EXCEPT !.flag.truncate = TRUE]
      [] TrimSpace(opt) = "append"   -> [out EXCEPT !.flag.append = TRUE]
      [] OTHER                       -> Permission(out, ParseOctal(opt))

\* for _, opt := range opts
RECURSIVE ApplyOpts(_, _)
ApplyOpts(out, opts) ==
    IF opts = <<>> THEN out ELSE ApplyOpts(ApplyOpt(out, opts[1]), Tail(opts))

\* for _, part := range parts: trim the part, split it on "|"
RECURSIVE ApplyParts(_, _)
ApplyParts(out, parts) ==
    IF parts = <<>> THEN out
    ELSE ApplyParts(ApplyOpts(out, Split(TrimSpace(parts[1]), "|")), Tail(parts))

\* flag = os.O_RDONLY, perm = 0666
FileDefault == [flag |-> Flags("ro"), perm |-> "666"]

\* parseFileFormatTag(tag): [flag, perm]
parseFileFormatTag(tag) ==
    IF HasPrefix(tag, "file:")
    THEN ApplyParts(FileDefault, Split(TrimPrefix(tag, "file:"), ","))
    ELSE FileDefault

FileTokens ==
    {"ro", "wo", "rw", "create", "truncate", "append", " rw ", "0644", " 0600", "8",
     "junk", ""}

FileTokenSeqs == UNION {[1..n -> FileTokens] : n \in 0..MaxTokens}

\* options with and without the file: prefix, the tokens joined by "|" or ","
FileInputs ==
    {pre0 \o JoinParts(ts, sep) :
        pre0 \in {"file:", "", "time:"}, ts \in FileTokenSeqs, sep \in {"|", ","}}

RunParseFileFormatTag ==
    /\ pc = "file"
    /\ tagOut' = parseFileFormatTag(tagIn)
    /\ pc' = "filed"
    /\ UNCHANGED <<other, prefix, target, pre, env, stack, store, alloc, entered,
                   lookups, hookCalls, cause, err, tagIn, call>>

InitFile ==
    /\ prefix = ""
    /\ target = [shape |-> "ptrStruct", typ |-> "Simple"]
    /\ pre = FALSE
    /\ env = [k \in {} |-> Absent]
    /\ stack = <<>>
    /\ store = [q \in {} |-> Nil]
    /\ alloc = {}
    /\ entered = <<>>
    /\ lookups = <<>>
    /\ hookCalls = <<>>
    /\ cause = NoErr
    /\ err = NoErr
    /\ pc = "file"
    /\ tagIn \in FileInputs
    /\ tagOut = NoTag
    /\ call = NoCall
    /\ other = NoOther

NextFile == RunParseFileFormatTag

SpecFile == InitFile /\ [][NextFile]_vars

-----------------------------------------------------------------------------
(* setField on its own: one call on a field of some shape, holding its     *)
(* zero value (nil for a pointer) or a value the caller put there, with a  *)
(* raw string.                                                             *)

Widths == {8, 16, 32, 64}

Typed(f, ident) == [f EXCEPT !.ident = ident]

\* a field of slice type with the given element type
SliceOf(el, opt) == [Fld("", "", opt, "slice", 0, FALSE, FALSE, "", TRUE) EXCEPT !.el = <<el>>]

\* an element or field type without a tag
Plain(kind, bits, ptr) == Fld("", "", "", kind, bits, ptr, FALSE, "", TRUE)

IntFields == {Plain(k, w, p) : k \in {"int", "uint"}, w \in Widths, p \in BOOLEAN}

\* time.Duration, *time.Duration, []time.Duration, and a named int64 type
DurationFields ==
    { Typed(Plain("int", 64, FALSE), "time.Duration"),
      Typed(Plain("int", 64, TRUE), "time.Duration"),
      SliceOf(Typed(Plain("int", 64, FALSE), "time.Duration"), ""),
      Typed(Plain("int", 64, FALSE), "DurationAlias"),
      SliceOf(Typed(Plain("int", 64, FALSE), "DurationAlias"), "") }

\* []string, []int, []int8, []*int, []uint8, []bool, [][]int, a slice of a
\* type with a ParseField method, slices of a plain struct, net.IP,
\* net.HardwareAddr and []net.HardwareAddr
SliceFields ==
    { SliceOf(Plain("string", 0, FALSE), ""),
      SliceOf(Plain("int", 64, FALSE), ""),
      SliceOf(Plain("int", 8, FALSE), ""),
      SliceOf(Plain("int", 64, TRUE), ""),
      SliceOf(Plain("uint", 8, FALSE), ""),
      SliceOf(Plain("bool", 0, FALSE), ""),
      SliceOf(SliceOf(Plain("int", 64, FALSE), ""), ""),
      SliceOf(HookLeaf("", "struct", FALSE), ""),
      SliceOf(Plain("struct", 0, FALSE), ""),
      SliceOf(Plain("struct", 0, FALSE), "json"),
      Typed(SliceOf(Plain("uint", 8, FALSE), ""), "net.IP"),
      Typed(SliceOf(Plain("uint", 8, FALSE), ""), "net.HardwareAddr"),
      Typed(SliceOf(Typed(SliceOf(Plain("uint", 8, FALSE), ""), "net.HardwareAddr"), ""),
            "[]net.HardwareAddr") }

Opts == {"", "json", "yaml", "xml", "JSON"}

\* maps and plain structs under every format option
DecodedFields ==
    {Fld("", "", o, k, 0, FALSE, FALSE, "", TRUE) : k \in {"map", "struct"}, o \in Opts}

\* string, float64, bool and pointers to them
ScalarFields == {Plain(k, 64, p) : k \in {"string", "float", "bool"}, p \in BOOLEAN}

SetFields ==
    IntFields \cup DurationFields \cup SliceFields \cup DecodedFields \cup ScalarFields

\* literals at and next to the limits of every width
RangeLiterals ==
    { "0", "-1", "127", "128", "-128", "-129", "255", "256", "300",
      "32767", "32768", "-32768", "-32769", "65535", "65536",
      "2147483647", "2147483648", "-2147483648", "-2147483649",
      "4294967295", "4294967296",
      "9223372036854775807", "9223372036854775808",
      "-9223372036854775808", "-9223372036854775809",
      "18446744073709551615", "18446744073709551616" }

SetValues ==
    RangeLiterals \cup
    { "", "x", "1,2,3", "1, 2", "1,x", " a ,b", "10", "10s", "1h", "5ms", "-2m",
      "10s, 1m", "10.0.0.1", "256.0.0.1", "00:00:5e:00:53:01", "{}" }

HasDot(s) == \E i \in 1..Len(s) : Ch(s, i) = "."

RECURSIVE UsesDuration(_)
UsesDuration(f) == f.ident = "time.Duration" \/ (f.kind = "slice" /\ UsesDuration(f.el[1]))

\* fractions are outside the duration literals ParseDuration is modelled for
ValuesFor(f) == IF UsesDuration(f) THEN {v \in SetValues : ~HasDot(v)} ELSE SetValues

CurValues(f) == {IF f.ptr THEN Nil ELSE Zero(f.kind), Preset(f.kind)}

RunSetField ==
    /\ pc = "set"
    /\ \E extOk \in (IF External(call.f) THEN BOOLEAN ELSE {TRUE}) :
           call' = [call EXCEPT !.extOk = extOk,
                                !.out = setField(call.f, call.cur, call.value, extOk)]
    /\ pc' = "returned"
    /\ UNCHANGED <<other, prefix, target, pre, env, stack, store, alloc, entered,
                   lookups, hookCalls, cause, err, tagIn, tagOut>>

InitSet ==
    /\ prefix = ""
    /\ target = [shape |-> "ptrStruct", typ |-> "Simple"]
    /\ pre = FALSE
    /\ env = [k \in {} |-> Absent]
    /\ stack = <<>>
    /\ store = [q \in {} |-> Nil]
    /\ alloc = {}
    /\ entered = <<>>
    /\ lookups = <<>>
    /\ hookCalls = <<>>
    /\ cause = NoErr
    /\ err = NoErr
    /\ pc = "set"
    /\ tagIn = ""
    /\ tagOut = NoTag
    /\ other = NoOther
    /\ \E f \in SetFields : \E v \in ValuesFor(f) : \E c \in CurValues(f) :
           call = [NoCall EXCEPT !.f = f, !.value = v, !.cur = c]

\* the same field set a second time from the same value: a record populated
\* twice; first keeps the outcome of the first call
RepeatSetField ==
    /\ pc = "returned"
    /\ call.out.err = NoErr
    /\ call' = [call EXCEPT !.first = call.out,
                            !.out = setField(call.f, call.out.val, call.value, call.extOk)]
    /\ pc' = "again"
    /\ UNCHANGED <<other, prefix, target, pre, env, stack, store, alloc, entered,
                   lookups, hookCalls, cause, err, tagIn, tagOut>>

NextSet == RunSetField \/ RepeatSetField

SpecSet == InitSet /\ [][NextSet]_vars

-----------------------------------------------------------------------------
(* Reading the type table along a field path, for the properties below.    *)

RECURSIVE FieldAt(_, _)
FieldAt(typ, path) ==
    IF Len(path) = 1 THEN Types[typ][path[1]]
    ELSE FieldAt(Types[typ][path[1]].elem, Tail(path))

\* the structural fields a path goes through, outermost first
RECURSIVE Ancestors(_, _)
Ancestors(typ, path) ==
    IF Len(path) <= 1 THEN <<>>
    ELSE <<Types[typ][path[1]]>> \o Ancestors(Types[typ][path[1]].elem, Tail(path))

FieldOf(l) == FieldAt(target.typ, l.path)

AncestorsOf(l) == Ancestors(target.typ, l.path)

\* the text after "nested:" in a nesting directive
Suffix(tag) == SubSeq(tag, Len("nested:") + 1, Len(tag))

\* the path goes through nesting directives with non-empty suffixes only
ViaDirectives(l) ==
    \A k \in 1..Len(AncestorsOf(l)) :
        HasPrefix(AncestorsOf(l)[k].tag, "nested:") /\ Suffix(AncestorsOf(l)[k].tag) # ""

Suffixes(l) == [k \in 1..Len(AncestorsOf(l)) |-> Suffix(AncestorsOf(l)[k].tag)]

\* the record of the field was instantiated by the traversal
FreshAt(l) == ~pre /\ \E k \in 1..Len(AncestorsOf(l)) : AncestorsOf(l)[k].ptr

\* part 0 of a tag, and whether a flag occurs among the later parts
TagKey(tag) == TrimSpace(Split(tag, ",")[1])

HasFlag(tag, flag) ==
    \E k \in 2..Len(Split(tag, ",")) : TrimSpace(Split(tag, ",")[k]) = flag

\* UPPER(join("_", basePrefix, suffixes..., key))
JoinedKey(l) ==
    ToUpper(JoinParts((IF prefix # "" THEN <<prefix>> ELSE <<>>)
                        \o Suffixes(l) \o <<TagKey(FieldOf(l).tag)>>, "_"))

\* depth-first declaration order of two field paths
Precedes(q, p) ==
    \E k \in 1..Len(q) :
        /\ k <= Len(p)
        /\ q[k] < p[k]
        /\ \A j \in 1..(k - 1) : q[j] = p[j]

Parent(path) == SubSeq(path, 1, Len(path) - 1)

\* the string a field is coerced from, given what the lookup answered
Used(l) ==
    LET r == env[l.key] IN
    IF ~r.exists \/ r.value = "" THEN FieldOf(l).def ELSE r.value

\* the coercion of a string by the field's own shape
Coerced(l, value) ==
    setField(FieldOf(l), PreValue(FieldOf(l), FreshAt(l)), value, TRUE)

Failing == pc \in {"unwinding", "failed"}

-----------------------------------------------------------------------------
(* Properties.                                                             *)

\* C1: a leaf field without omitprefix that is reached through nesting
\* directives with suffixes s1..sk only is looked up under
\* UPPER(p_s1_..._sk_key) when the base prefix p is not empty, and under
\* UPPER(s1_..._sk_key) when it is empty.
C1_KeyComposition ==
    \A i \in 1..Len(lookups) :
        LET l == lookups[i] IN
        (ViaDirectives(l) /\ ~parseTag(FieldOf(l).tag).omitprefix)
            => l.key = JoinedKey(l)

\* prefix app, field tagged nested:addr, inner tag city: APP_ADDR_CITY is
\* looked up and its value lands in the inner field
C1_Witness ==
    /\ pc = "done" /\ prefix = "app" /\ target.typ = "Person"
    /\ \E i \in 1..Len(lookups) :
           lookups[i] = [path |-> <<2, 1>>, key |-> "APP_ADDR_CITY"]
    /\ "APP_ADDR_CITY" \in DOMAIN env /\ env["APP_ADDR_CITY"] = Present("x")
    /\ <<2, 1>> \in DOMAIN store /\ store[<<2, 1>>] = StrVal("x")

\* C2: a required leaf field whose key is absent makes the traversal fail
\* with MissingRequired naming the upper-cased key, at that field, and the
\* field is not assigned.
C2_MissingRequiredFails ==
    \A i \in 1..Len(lookups) :
        LET l == lookups[i] IN
        (parseTag(FieldOf(l).tag).required /\ env[l.key] = Absent)
            => /\ i = Len(lookups)
               /\ Failing
               /\ err = MissingRequired(l.key)
               /\ l.key = ToUpper(l.key)
               /\ l.path \notin DOMAIN store

\* prefix app, tag "port,required", nothing set: the error names APP_PORT
C2_Witness ==
    /\ pc = "failed" /\ prefix = "app" /\ target.typ = "Server"
    /\ err = MissingRequired("APP_PORT")
    /\ DOMAIN store = {}

\* C3: a required leaf field with a non-empty default never fails the
\* required check: with the key absent or empty it is assigned from the
\* default.
C3_DefaultSatisfiesRequired ==
    \A i \in 1..Len(lookups) :
        LET l == lookups[i]
            f == FieldOf(l)
            r == env[l.key]
        IN  (parseTag(f.tag).required /\ f.def # "" /\ (~r.exists \/ r.value = ""))
            => /\ err \notin {MissingRequired(l.key), EmptyRequired(l.key)}
               /\ l.path \in DOMAIN store
               /\ store[l.path] = Coerced(l, f.def).val

\* C4: a non-required leaf field with default d holds the coercion of d when
\* the key is absent or empty, exactly as if d had been looked up (failing
\* the same way when d does not coerce), and the coercion of v when the key
\* holds a non-empty v.
C4_DefaultAsLookedUp ==
    \A i \in 1..Len(lookups) :
        LET l == lookups[i]
            f == FieldOf(l)
            r == env[l.key]
            from == IF ~r.exists \/ r.value = "" THEN f.def ELSE r.value
            want == Coerced(l, from)
        IN  (~parseTag(f.tag).required /\ f.def # "" /\ ~External(f))
            => IF want.err = NoErr
               THEN l.path \in DOMAIN store /\ store[l.path] = want.val
               ELSE /\ l.path \notin DOMAIN store
                    /\ i = Len(lookups)
                    /\ Failing
                    /\ err = ConversionFailure(l.key, want.err)

\* lvl with default 8: absent gives 8, and dbg with a default that is no
\* boolean literal gets as far as failing on it
C4_Witness ==
    /\ pc = "failed" /\ target.typ = "Server" /\ prefix = ""
    /\ "LVL" \in DOMAIN env /\ env["LVL"] = Absent
    /\ <<3>> \in DOMAIN store /\ store[<<3>>] = IntVal(8)
    /\ "DBG" \in DOMAIN env /\ env["DBG"] = Present("")

\* C5: a leaf field flagged omitprefix is looked up under UPPER(key) alone at
\* every depth, while a sibling without the flag in the same record uses the
\* full composed prefix.
C5_OmitPrefix ==
    \A i \in 1..Len(lookups) :
        LET l == lookups[i]
            f == FieldOf(l)
        IN  /\ parseTag(f.tag).omitprefix => l.key = ToUpper(TagKey(f.tag))
            /\ ( /\ ~parseTag(f.tag).omitprefix
                 /\ ViaDirectives(l)
                 /\ \E j \in 1..Len(lookups) :
                        /\ Parent(lookups[j].path) = Parent(l.path)
                        /\ parseTag(FieldOf(lookups[j]).tag).omitprefix )
               => l.key = JoinedKey(l)

\* two levels down under prefix My: zip is looked up as ZIP, its sibling city
\* as MY_IN_ADDR_CITY
C5_Witness ==
    /\ prefix = "My" /\ target.typ = "Deep"
    /\ \E i, j \in 1..Len(lookups) :
        /\ lookups[i] = [path |-> <<1, 2, 3>>, key |-> "ZIP"]
        /\ lookups[j] = [path |-> <<1, 2, 1>>, key |-> "MY_IN_ADDR_CITY"]

\* the tag with its recognized flags in the documented order and nothing else
Canonical(tag) ==
    JoinParts(<<TagKey(tag)>>
                \o (IF HasFlag(tag, "required") THEN <<"required">> ELSE <<>>)
                \o (IF HasFlag(tag, "omitprefix") THEN <<"omitprefix">> ELSE <<>>), ",")

\* C6: the flags after the key are recognized whatever their order and
\* position and unrecognized flags are ignored: a tag parses to the same
\* (required, omitprefix) pair as the tag with the same recognized flags in
\* the documented order.
C6_FlagsAnyOrder ==
    pc = "tagged"
        => /\ tagOut.required = parseTag(Canonical(tagIn)).required
           /\ tagOut.omitprefix = parseTag(Canonical(tagIn)).omitprefix

\* C7: ParseEnv on anything but a non-nil pointer to a struct returns the
\* InvalidTarget error before any field is processed or looked up.
C7_InvalidTargetRejected ==
    (target.shape # "ptrStruct" /\ pc # "idle")
        => /\ pc = "failed"
           /\ err = InvalidTarget
           /\ lookups = <<>>
           /\ DOMAIN store = {}

\* the state of a traversal that failed at the field looked up last
C8_State ==
    (Failing /\ lookups # <<>>)
        => LET n    == Len(lookups)
               fail == lookups[n].path
           IN  /\ err # NoErr
               /\ \A k \in 1..Len(err) : err[k].key \in {"", lookups[n].key}
               /\ fail \notin DOMAIN store
               /\ \A q \in DOMAIN store : Precedes(q, fail)
               /\ \A a \in alloc : Precedes(a, fail) \/ a = SubSeq(fail, 1, Len(a))
               /\ \A i \in 1..(n - 1) :
                    LET l == lookups[i] IN
                    /\ Precedes(l.path, fail)
                    /\ ShouldSet(env[l.key].exists, Used(l))
                         => /\ l.path \in DOMAIN store
                            /\ store[l.path] = IF FieldOf(l).hook THEN HookVal(Used(l))
                                               ELSE Coerced(l, Used(l)).val

\* what a failed traversal may still do
C8_Step ==
    Failing
        => /\ lookups' = lookups
           /\ store' = store
           /\ alloc' = alloc
           /\ hookCalls' = hookCalls
           /\ err' = err
           /\ pc' \in {"unwinding", "failed"}

\* C8: when the traversal fails at a field, the fields before it in
\* depth-first declaration order keep what the traversal assigned, the fields
\* after it keep what they held, nothing after it is looked up, and the one
\* error of that field is what is returned.
C8_FailFast == []C8_State /\ [][C8_Step]_vars

\* a failure two records down with fields assigned before it and fields left
\* after it
C8_Witness ==
    /\ pc = "failed" /\ target.typ = "Deep"
    /\ lookups # <<>> /\ lookups[Len(lookups)].path = <<1, 2, 2>>
    /\ <<1, 1>> \in DOMAIN store /\ <<1, 2, 1>> \in DOMAIN store
    /\ cause = Cause("strconv.ErrSyntax")

\* C9: a leaf field whose pointer type implements ParseField is handed to the
\* hook exactly once, with the very string setField received, and no
\* built-in coercer runs for it: it holds what the hook stored, or the
\* traversal fails with the hook's error.
C9_HookFirst ==
    \A i \in 1..Len(lookups) :
        LET l == lookups[i]
            f == FieldOf(l)
            calls == {j \in 1..Len(hookCalls) : hookCalls[j].path = l.path}
        IN  (f.hook /\ ShouldSet(env[l.key].exists, Used(l))
                    /\ ~(HasFlag(f.tag, "required") /\ env[l.key].value = ""))
            => /\ Cardinality(calls) = 1
               /\ \A j \in calls : hookCalls[j].arg = Used(l)
               /\ IF l.path \in DOMAIN store
                  THEN store[l.path] = HookVal(Used(l))
                  ELSE /\ i = Len(lookups)
                       /\ Failing
                       /\ cause = Cause("ParseField error")

\* hooks on a struct, a string and an integer pointer all ran, the last one on
\* a string no integer coercer accepts
C9_Witness ==
    /\ pc = "done" /\ target.typ = "Custom"
    /\ Len(hookCalls) = 3
    /\ <<2>> \in DOMAIN store /\ store[<<2>>] = HookVal("1")
    /\ <<3>> \in DOMAIN store /\ store[<<3>>] = HookVal("x")

\* C10: a conversion failure of a leaf field at any depth is returned as one
\* error that names the field's upper-cased key exactly once and wraps the
\* cause unchanged.
C10_ConversionWrapped ==
    (Failing /\ cause # NoErr)
        => LET key == lookups[Len(lookups)].key IN
           /\ Len(err) >= 2
           /\ err[1].key = key
           /\ key = ToUpper(key)
           /\ Cardinality({k \in 1..Len(err) : err[k].key # ""}) = 1
           /\ Tail(err) = cause

\* a numeric failure three records down, returned by the outermost call
C10_Witness ==
    /\ pc = "failed" /\ prefix = "My"
    /\ lookups # <<>> /\ Len(lookups[Len(lookups)].path) = 3
    /\ err = <<Layer("failed to parse environment variable", "MY_IN_ADDR_NO"),
               Layer("strconv.ErrSyntax", "")>>

\* the prefix parts a structural field contributes: nothing when untagged
NestedParts(l) ==
    SelectSeq([k \in 1..Len(AncestorsOf(l)) |->
                  IF AncestorsOf(l)[k].tag = "" THEN ""
                  ELSE Suffix(AncestorsOf(l)[k].tag)],
              LAMBDA part : part # "")

\* the path goes through at least one untagged structural field
ViaUntagged(l) == \E k \in 1..Len(AncestorsOf(l)) : AncestorsOf(l)[k].tag = ""

\* C11: the fields of an untagged nested record are looked up under exactly
\* the prefix of the parent record's own fields, no segment added: a leaf
\* without omitprefix reached through an untagged structural field has the
\* key UPPER(join("_", base prefix, key)).
C11_UntaggedKeepsPrefix ==
    \A i \in 1..Len(lookups) :
        LET l == lookups[i] IN
        (ViaUntagged(l) /\ ~parseTag(FieldOf(l).tag).omitprefix)
            => l.key = ToUpper(JoinParts((IF prefix # "" THEN <<prefix>> ELSE <<>>)
                                           \o NestedParts(l)
                                           \o <<TagKey(FieldOf(l).tag)>>, "_"))

\* a field carries a nesting directive and is no record nor pointer to one
Misdirected(f) == HasPrefix(f.tag, "nested:") /\ ~IsStructLike(f)

\* C12: a nesting directive on a field that is neither a record nor a pointer
\* to a record makes the traversal fail with a configuration error: no call
\* ever moves past such a field.
C12_MisdirectedNestingFails ==
    \A k \in 1..Len(stack) :
        \A j \in 1..NumField(stack[k].typ) :
            (j < stack[k].i) => ~Misdirected(Types[stack[k].typ][j])

\* C13: a structural field tagged prefix:<suffix> is traversed like one
\* tagged nested:<suffix>: no variable is looked up for the field itself.
C13_PrefixSpelling ==
    \A i \in 1..Len(lookups) :
        LET f == FieldOf(lookups[i]) IN
        ~(HasPrefix(f.tag, "prefix:") /\ IsStructLike(f))

\* C14: a pointer leaf field that is nil before the call stays nil when its
\* key is absent and it has no default, and when the coercion fails; it is
\* non-nil afterwards only if a value was assigned to it.
C14_NilPointerLeaf ==
    \A i \in 1..Len(lookups) :
        LET l == lookups[i]
            f == FieldOf(l)
            now == FieldValue(l.path, f, FreshAt(l))
        IN  (f.ptr /\ PreValue(f, FreshAt(l)) = Nil)
            => /\ (~env[l.key].exists /\ f.def = "") => now = Nil
               /\ (i = Len(lookups) /\ Failing) => now = Nil
               /\ now # Nil => /\ ShouldSet(env[l.key].exists, Used(l))
                               /\ now = Coerced(l, Used(l)).val
                               /\ Coerced(l, Used(l)).err = NoErr

\* an out-of-range literal for a nil *int8 field: the call fails and the
\* pointer is still nil
C14_Witness ==
    /\ pc = "failed" /\ target.typ = "Ptrs" /\ ~pre
    /\ Len(lookups) = 1 /\ env[lookups[1].key] = Present("300")
    /\ cause = Cause("strconv.ErrRange")
    /\ FieldValue(<<1>>, Types["Ptrs"][1], FALSE) = Nil

\* C15: a pointer-to-record field the traversal reached is non-nil from then
\* on, whatever the lookups beneath it answered and whether or not the
\* nested traversal failed; a pointer that was non-nil already keeps the
\* record it pointed to.
C15_PointerRecordInstantiated ==
    \A i \in 1..Len(entered) :
        LET e == entered[i]
            f == FieldAt(target.typ, e.path)
        IN  f.ptr => /\ e.wasNil \/ e.path \notin alloc
                     /\ e.wasNil => e.path \in alloc
                     /\ Len(e.path) = 1 => (e.wasNil <=> ~pre)

\* a nil pointer to a record was instantiated, nothing beneath it was
\* present, and the nested traversal failed on a required key
C15_Witness ==
    /\ pc = "failed" /\ target.typ = "Deep" /\ ~pre
    /\ <<1>> \in alloc
    /\ \A k \in DOMAIN env : ~env[k].exists
    /\ err = MissingRequired("TZ")

\* the stand-alone setField call has returned
Returned == pc = "returned"

RECURSIVE CountChar(_, _)
CountChar(str, c) ==
    IF str = "" THEN 0
    ELSE (IF Ch(str, 1) = c THEN 1 ELSE 0) + CountChar(Tail(str), c)

\* the coercion of one string by the shape of a slice element, as setField
\* does it for a field of that shape
CoerceElem(el, opt, piece, extOk) ==
    setField([el EXCEPT !.opt = opt], IF el.ptr THEN Nil ELSE Zero(el.kind), piece, extOk)

\* C16: for a slice field that is empty before the call and a raw value with
\* n commas, the field afterwards holds n+1 elements in the order of the raw
\* string, element i the coercion of the whitespace-trimmed i-th piece by the
\* element's shape; if any piece fails to coerce the call fails and the
\* field is unchanged.  (Elements decoded by json or yaml are left out: the
\* decoders skip surrounding whitespace themselves.)
C16_SliceElements ==
    (/\ Returned /\ call.f.kind = "slice" /\ call.f.ident # "net.IP"
     /\ call.cur = SliceVal(<<>>)
     /\ ~(call.f.el[1].kind = "struct" /\ ~call.f.el[1].hook /\ Decoder(call.f.opt) # "-"))
        => LET n      == CountChar(call.value, ",")
               pieces == Split(call.value, ",")
               want   == [i \in 1..(n + 1) |->
                             CoerceElem(call.f.el[1], call.f.opt, TrimSpace(pieces[i]), call.extOk)]
           IN  IF \E i \in 1..(n + 1) : want[i].err # NoErr
               THEN call.out.err # NoErr /\ call.out.val = call.cur
               ELSE /\ call.out.err = NoErr
                    /\ Len(call.out.val.els) = n + 1
                    /\ \A i \in 1..(n + 1) : call.out.val.els[i] = want[i].val

\* C17: a field of type net.HardwareAddr is set by parsing the whole raw
\* string as one MAC address and a field of type net.IP by parsing it as one
\* IP address; neither is split on commas or parsed byte by byte.
C17_AddressTypes ==
    (Returned /\ call.f.ident \in {"net.HardwareAddr", "net.IP"})
        => LET r == IF call.f.ident = "net.IP" THEN ParseIP(call.value)
                    ELSE ParseMAC(call.value)
           IN  IF r.ok THEN call.out.err = NoErr /\ call.out.val = r.v
               ELSE call.out.err # NoErr /\ call.out.val = call.cur

\* C18: a map field, and a struct field of no recognized type and without a
\* hook, is assigned only when its format option is exactly json or yaml,
\* and then the decoder gets the whole raw string; under any other option,
\* the empty one included, the call fails with the unsupported-format error
\* and the field is unchanged.
C18_DecodedOnlyByFormat ==
    (Returned /\ call.f.kind \in {"map", "struct"} /\ ~call.f.hook)
        => IF call.f.opt \in {"json", "yaml"}
           THEN IF call.extOk
                THEN /\ call.out.err = NoErr
                     /\ call.out.val = Val("decoded", call.value, 0, FALSE)
                ELSE call.out.err # NoErr /\ call.out.val = call.cur
           ELSE /\ call.out.err = Cause("unsupported format")
                /\ ~call.out.written
                /\ call.out.val = call.cur

\* a map the caller filled, no format option: the error, and the map as it was
C18_Witness ==
    /\ Returned /\ call.f.kind = "map" /\ call.f.opt = "" /\ call.value = "{}"
    /\ call.cur = Preset("map")
    /\ call.out.err = Cause("unsupported format")
    /\ call.out.val = Preset("map")

\* the least signed and the least unsigned width that holds a literal (128:
\* none does)
NeedsBits ==
    [lit \in RangeLiterals |->
        CASE lit \in {"0", "127"}                        -> <<8, 8>>
          [] lit \in {"-1", "-128"}                      -> <<8, 128>>
          [] lit \in {"128", "255"}                      -> <<16, 8>>
          [] lit \in {"-129", "-32768"}                  -> <<16, 128>>
          [] lit \in {"256", "300", "32767"}             -> <<16, 16>>
          [] lit \in {"32768", "65535"}                  -> <<32, 16>>
          [] lit \in {"-32769", "-2147483648"}           -> <<32, 128>>
          [] lit \in {"65536", "2147483647"}             -> <<32, 32>>
          [] lit \in {"2147483648", "4294967295"}        -> <<64, 32>>
          [] lit \in {"-2147483649", "-9223372036854775808"} -> <<64, 128>>
          [] lit \in {"4294967296", "9223372036854775807"}   -> <<64, 64>>
          [] lit \in {"9223372036854775808", "18446744073709551615"} -> <<128, 64>>
          [] OTHER                                       -> <<128, 128>>]

\* the integer a literal denotes
Exact(lit) ==
    IF Ch(lit, 1) = "-" THEN IntOf(TRUE, Tail(lit)) ELSE IntOf(FALSE, lit)

\* C19: a base-10 literal outside the range of a signed or unsigned integer
\* field of 8, 16, 32 or 64 bits fails to coerce and leaves the field as it
\* was; whatever is stored is the literal's own value, never a truncation.
C19_OutOfRangeRejected ==
    (/\ Returned /\ call.f.kind \in {"int", "uint"} /\ call.f.ident = ""
     /\ call.value \in RangeLiterals)
        => LET need == NeedsBits[call.value][IF call.f.kind = "int" THEN 1 ELSE 2] IN
           IF need > call.f.bits
           THEN call.out.err # NoErr /\ ~call.out.written /\ call.out.val = call.cur
           ELSE call.out.err = NoErr /\ call.out.val = Exact(call.value)

\* 2^31 into an int32 the caller had set: a range error, the field as it was
C19_Witness ==
    /\ Returned /\ call.f = Plain("int", 32, FALSE) /\ call.value = "2147483648"
    /\ call.cur = Preset("int")
    /\ call.out.err = Cause("strconv.ErrRange")
    /\ call.out.val = Preset("int")

\* the nanoseconds of the duration literals
DurationNanos ==
    [lit \in {"10s", "1h", "5ms", "-2m"} |->
        CASE lit = "10s" -> Val("int", "10000000000", 0, FALSE)
          [] lit = "1h"  -> Val("int", "3600000000000", 0, FALSE)
          [] lit = "5ms" -> IntVal(5000000)
          [] lit = "-2m" -> Val("int", "-120000000000", 0, FALSE)]

\* C20: a field of type time.Duration, also behind a pointer or as the
\* element of a slice, is parsed as a duration literal and never as a plain
\* base-10 integer; a distinct named type with the same 64-bit integer
\* representation is parsed as a plain base-10 integer.
C20_DurationExactType ==
    Returned =>
        /\ (call.f.kind = "int" /\ call.f.ident = "time.Duration")
            => /\ call.value \in DOMAIN DurationNanos
                    => call.out.err = NoErr /\ call.out.val = DurationNanos[call.value]
               /\ call.value \in RangeLiterals \ {"0"}
                    => call.out.err # NoErr /\ call.out.val = call.cur
        /\ (call.f.kind = "slice" /\ call.f.el[1].ident = "time.Duration"
                /\ call.cur = SliceVal(<<>>))
            => /\ call.value = "10s, 1m"
                    => call.out.val = SliceVal(<<DurationNanos["10s"],
                                                 Val("int", "60000000000", 0, FALSE)>>)
               /\ call.value = "1,2,3" => call.out.err # NoErr
        /\ (call.f.kind = "int" /\ call.f.ident = "DurationAlias")
            => /\ call.value \in DOMAIN DurationNanos => call.out.err = Cause("strconv.ErrSyntax")
               /\ call.value = "10" => call.out.err = NoErr /\ call.out.val = IntVal(10)
        /\ (call.f.kind = "slice" /\ call.f.el[1].ident = "DurationAlias")
            => (call.value = "10s, 1m" => call.out.err = Cause("strconv.ErrSyntax"))

\* "10s" into a nil *time.Duration: the pointer holds ten seconds
C20_Witness ==
    /\ Returned /\ call.f = Typed(Plain("int", 64, TRUE), "time.Duration")
    /\ call.value = "10s" /\ call.cur = Nil
    /\ call.out.val = Val("int", "10000000000", 0, FALSE)

-----------------------------------------------------------------------------
(* The declared fields of a record in depth-first declaration order, read  *)
(* off the type table.                                                     *)

\* how the declaration of a field reads: a key to resolve, a record to descend
\* into, or nothing to do
Class(f) ==
    IF f.tag # "" /\ ~HasPrefix(f.tag, "nested:") THEN "leaf"
    ELSE IF f.kind = "struct" /\ f.canSet THEN "structural"
         ELSE "skipped"

\* the fields of typ from the i-th on, and beneath them, down to paths of
\* length depth
RECURSIVE Walk(_, _, _, _)
Walk(typ, i, path, depth) ==
    IF i > Len(Types[typ]) THEN <<>>
    ELSE LET f    == Types[typ][i]
             here == [path |-> path \o <<i>>, class |-> Class(f)]
         IN  <<here>>
             \o (IF here.class = "structural" /\ depth > 1
                 THEN Walk(f.elem, 1, here.path, depth - 1) ELSE <<>>)
             \o Walk(typ, i + 1, path, depth)

Fields == Walk(target.typ, 1, <<>>, MaxDepth)

OfClass(class) == SelectSeq(Fields, LAMBDA x : x.class = class)

PathsOf(seq) == [i \in 1..Len(seq) |-> seq[i].path]

Valid == target.shape = "ptrStruct"

\* C21: the lookups are made in the depth-first declaration order of the
\* leaf fields, none left out before the traversal ends, and a failing
\* traversal returns the error of the first field that fails in that order,
\* which is the last one looked up.
C21_DeclarationOrder ==
    (Valid /\ pc # "idle")
        => /\ Len(lookups) <= Len(OfClass("leaf"))
           /\ PathsOf(lookups) = SubSeq(PathsOf(OfClass("leaf")), 1, Len(lookups))
           /\ pc = "done" => Len(lookups) = Len(OfClass("leaf"))
           /\ Failing => /\ lookups # <<>>
                         /\ err # NoErr
                         /\ err[1].key = lookups[Len(lookups)].key

\* name and city were resolved, the house number failed: its error is
\* returned and the required field after the nested record was never looked up
C21_Witness ==
    /\ pc = "failed" /\ target.typ = "Person" /\ prefix = "app"
    /\ PathsOf(lookups) = << <<1>>, <<2, 1>>, <<2, 2>> >>
    /\ err[1].key = "APP_ADDR_NO"
    /\ "TZ" \notin DOMAIN env

\* C22: a traversal started on a valid target that is no longer in progress
\* has ended in Done or in Failed(error), for every record type, those that
\* refer to themselves through an untagged pointer-to-struct field included:
\* no traversal is cut short by the runtime.
C22_Terminates ==
    (Valid /\ pc \notin {"idle", "running", "unwinding"})
        => pc \in {"done", "failed"}

\* the prefix a record at the end of a path is traversed under, composed from
\* the base prefix along the structural fields of the path
RECURSIVE PrefixAt(_, _, _)
PrefixAt(typ, path, p) ==
    IF path = <<>> THEN p
    ELSE LET f == Types[typ][path[1]]
             fragment == (IF p # "" THEN "_" ELSE "")
                           \o (IF HasPrefix(f.tag, "nested:")
                               THEN Suffix(f.tag) ELSE f.tag)
         IN  PrefixAt(f.elem, Tail(path), p \o fragment)

C23_State ==
    /\ \A k \in 1..Len(stack) :
           stack[k].prefix = PrefixAt(target.typ, stack[k].path, prefix)
    /\ \A i \in 1..Len(lookups) :
           LET l  == lookups[i]
               pt == parseTag(FieldOf(l).tag)
               p  == PrefixAt(target.typ, Parent(l.path), prefix)
           IN  l.key = ToUpper(IF p # "" /\ ~pt.omitprefix THEN p \o "_" \o pt.key
                               ELSE pt.key)

C23_Step ==
    \A k \in 1..Len(stack) :
        k <= Len(stack') => stack'[k].prefix = stack[k].prefix

\* C23: the prefix a record is traversed under is its parent's prefix with
\* one fragment appended, no step changes the prefix of a call in progress,
\* and every field is resolved under the prefix composed along its own path:
\* a sibling after a structural field uses the prefix the parent had before.
C23_PrefixScoped == []C23_State /\ [][C23_Step]_vars

\* the field after the nested pointer record is looked up under the base
\* prefix, after a field three records down was looked up under the composed
\* one
C23_Witness ==
    /\ pc = "done" /\ target.typ = "Deep" /\ prefix = "app"
    /\ \E i, j \in 1..Len(lookups) :
           /\ i < j
           /\ lookups[i] = [path |-> <<1, 2, 1>>, key |-> "APP_IN_ADDR_CITY"]
           /\ lookups[j] = [path |-> <<2>>, key |-> "APP_ID"]

LeavesOf(typ) ==
    PathsOf(SelectSeq(Walk(typ, 1, <<>>, MaxDepth), LAMBDA x : x.class = "leaf"))

\* what a traversal that runs alone, from its first step to its last, does
\* to a record of type typ under the engine's prefix and the environment:
\* the fields it writes, the keys it looks up and the error it returns
RECURSIVE Alone(_, _, _)
Alone(typ, leaves, acc) ==
    IF leaves = <<>> \/ acc.err # NoErr THEN acc
    ELSE LET path  == leaves[1]
             f     == FieldAt(typ, path)
             pt    == parseTag(f.tag)
             key   == ToUpper(EnvKey(PrefixAt(typ, Parent(path), prefix), pt))
             r     == IF key \in DOMAIN env THEN env[key] ELSE Absent
             req   == RequiredErr(pt.required, r.exists, r.value, key)
             value == WithDefault(r.value, f.def)
             fresh == ~pre /\ \E k \in 1..Len(Ancestors(typ, path)) :
                                  Ancestors(typ, path)[k].ptr
             sf    == setField(f, PreValue(f, fresh), value, TRUE)
             calls == req = NoErr /\ ShouldSet(r.exists, value)
         IN  Alone(typ, Tail(leaves),
                   [store   |-> IF calls /\ sf.written
                                THEN [q \in DOMAIN acc.store \cup {path} |->
                                        IF q = path THEN sf.val ELSE acc.store[q]]
                                ELSE acc.store,
                    lookups |-> Append(acc.lookups, [path |-> path, key |-> key]),
                    err     |-> IF req # NoErr THEN req
                                ELSE IF calls /\ sf.err # NoErr
                                     THEN ConversionFailure(key, sf.err)
                                     ELSE NoErr])

Sequential(typ) ==
    Alone(typ, LeavesOf(typ), [store |-> [q \in {} |-> Nil], lookups |-> <<>>, err |-> NoErr])

Finished(c) == c.pc \in {"done", "failed"}

\* a finished traversal left its record as a traversal running alone does
AsAlone(c) ==
    Finished(c)
        => /\ c.store = Sequential(c.target.typ).store
           /\ c.lookups = Sequential(c.target.typ).lookups
           /\ c.err = Sequential(c.target.typ).err
           /\ c.pc = "done" <=> c.err = NoErr

\* C25: no step of a traversal changes the engine's base prefix, and each of
\* two traversals that share the engine and whose steps are interleaved
\* leaves its record with the same fields written, after the same lookups,
\* and returns the same error as a traversal that runs alone against the
\* same environment.
C25_SharedEngine == [](AsAlone(Current) /\ AsAlone(other)) /\ [][prefix' = prefix]_vars

\* a record with a nested record and a record with a pointer field, both
\* finished, one with an error and one without, after the scheduler changed
\* the running traversal three times
C25_Witness ==
    /\ pc = "done" /\ target.typ = "Ptrs"
    /\ other.pc = "failed" /\ other.target.typ = "Job"
    /\ other.turns = 3
    /\ prefix = "app"
    /\ other.err[1].key = "APP_IN_RATE"
    /\ Len(lookups) = 2

\* a slice field that is no net.IP, which is parsed as one address
Sequence(f) == f.kind = "slice" /\ f.ident # "net.IP"

Scalar(f) == f.kind \in {"string", "int", "uint", "float", "bool"} /\ ~f.hook

\* the number of pieces strings.Split cuts a raw value into
Pieces(value) == CountChar(value, ",") + 1

\* the elements of a sequence from the i-th to the j-th
Slice(v, i, j) == SubSeq(v.els, i, j)

\* C26: a call that succeeds on a sequence field holding m elements, from a
\* raw value of n pieces, leaves m+n elements, the m old ones first; a second
\* call from the same value succeeds again and leaves m+2n elements, the n
\* new ones twice; a scalar field holds after the second call what it held
\* after the first.
C26_SliceAppends ==
    LET m == Len(call.cur.els)
        n == Pieces(call.value)
    IN  /\ (pc = "returned" /\ Sequence(call.f) /\ call.out.err = NoErr)
               => /\ Len(call.out.val.els) = m + n
                  /\ Slice(call.out.val, 1, m) = call.cur.els
        /\ pc = "again" => call.out.err = NoErr
        /\ (pc = "again" /\ Sequence(call.f))
               => /\ Len(call.out.val.els) = m + 2 * n
                  /\ Slice(call.out.val, 1, m + n) = call.first.val.els
                  /\ Slice(call.out.val, m + n + 1, m + 2 * n)
                         = Slice(call.first.val, m + 1, m + n)
        /\ (pc = "again" /\ Scalar(call.f)) => call.out.val = call.first.val

\* a []int field that held one element, set twice from "1,2,3": seven elements
C26_Witness ==
    /\ pc = "again"
    /\ call.f = SliceOf(Plain("int", 64, FALSE), "")
    /\ call.cur = Preset("slice")
    /\ call.value = "1,2,3"
    /\ Len(call.first.val.els) = 4
    /\ Len(call.out.val.els) = 7
    /\ call.out.val.els[1] = call.cur.els[1]

\* C27: a call that fails in a primitive coercer or in the sequence builder
\* leaves the field holding exactly what it held before the call, nil
\* pointers included: nothing partly built or partly parsed is stored.
C27_FailureKeepsField ==
    (/\ Returned
     /\ call.out.err # NoErr
     /\ Scalar(call.f) \/ call.f.kind = "slice")
        => call.out.val = call.cur /\ ~call.out.written

\* a []int field holding one element, raw value "1,x": the call fails after
\* the first piece was coerced, and the field still holds its one element
C27_Witness ==
    /\ Returned
    /\ call.f = SliceOf(Plain("int", 64, FALSE), "")
    /\ call.cur = Preset("slice")
    /\ call.value = "1,x"
    /\ call.out.err # NoErr
    /\ call.out.val = Preset("slice")

\* a sequence of sequences of integers
Nested2(f) ==
    /\ f.kind = "slice" /\ f.ident = ""
    /\ f.el[1].kind = "slice" /\ f.el[1].ident = "" /\ ~f.el[1].hook
    /\ f.el[1].el[1].kind = "int" /\ f.el[1].el[1].ident = ""

\* C29: a field that is a sequence of integer sequences gets one element per
\* comma-separated piece of the raw value, each an inner sequence holding
\* exactly the one integer of that piece; the call succeeds exactly when
\* every piece is an integer, and no inner sequence has two or more elements.
C29_InnerSingletons ==
    (Returned /\ Nested2(call.f))
        => LET m      == Len(call.cur.els)
               pieces == Split(call.value, ",")
               want   == [i \in 1..Len(pieces) |->
                             ParseInt(TrimSpace(pieces[i]), call.f.el[1].el[1].bits)]
           IN  IF \A i \in 1..Len(pieces) : want[i].ok
               THEN /\ call.out.err = NoErr
                    /\ Len(call.out.val.els) = m + Len(pieces)
                    /\ \A i \in 1..Len(pieces) :
                           /\ Len(call.out.val.els[m + i].els) = 1
                           /\ call.out.val.els[m + i].els[1] = want[i].v
               ELSE call.out.err # NoErr

\* "1,2,3" into an empty [][]int: [[1],[2],[3]]
C29_Witness ==
    /\ Returned /\ Nested2(call.f)
    /\ call.cur = SliceVal(<<>>)
    /\ call.value = "1,2,3"
    /\ call.out.err = NoErr
    /\ call.out.val.els = << SliceVal(<<IntVal(1)>>), SliceVal(<<IntVal(2)>>),
                             SliceVal(<<IntVal(3)>>) >>

\* a leaf field that is not required, has no default and is coerced by the
\* engine's own coercers
Optional(f) == ~parseTag(f.tag).required /\ f.def = "" /\ ~f.hook /\ f.ident = ""

\* C28: for a non-required leaf field without default, a key present with
\* the empty value is coerced from the empty string: a text field is set to
\* the empty string, an integer, float or boolean field fails the traversal
\* with a conversion error naming the key and is not assigned; a key that is
\* absent leaves the field unassigned and causes no error.
C28_EmptyIsCoerced ==
    \A i \in 1..Len(lookups) :
        LET l == lookups[i]
            f == FieldOf(l)
            r == env[l.key]
        IN  Optional(f)
            => /\ (r = Present("") /\ f.kind = "string")
                   => /\ l.path \in DOMAIN store
                      /\ store[l.path] = StrVal("")
                      /\ ~(i = Len(lookups) /\ Failing)
               /\ (r = Present("") /\ f.kind \in {"int", "uint", "float", "bool"})
                   => /\ l.path \notin DOMAIN store
                      /\ i = Len(lookups)
                      /\ Failing
                      /\ Len(err) > 1
                      /\ err[1] = Layer("failed to parse environment variable", l.key)
               /\ r = Absent
                   => /\ l.path \notin DOMAIN store
                      /\ ~(i = Len(lookups) /\ Failing)

\* NAME and AGE are set to the empty string, IS_MARRIED was never reached:
\* the name is the empty string and the traversal failed on the age
C28_Witness ==
    /\ pc = "failed" /\ target.typ = "Simple" /\ prefix = ""
    /\ pre
    /\ {"NAME", "AGE"} \subseteq DOMAIN env
    /\ env["NAME"] = Present("") /\ env["AGE"] = Present("")
    /\ <<1>> \in DOMAIN store
    /\ store[<<1>>] = StrVal("")
    /\ <<2>> \notin DOMAIN store
    /\ err[1].key = "AGE"

\* the tokens of a file option, in the order written: the text after "file:"
\* cut at the commas, each part trimmed and cut at the bars
RECURSIVE Flatten(_)
Flatten(parts) ==
    IF parts = <<>> THEN <<>>
    ELSE Split(TrimSpace(parts[1]), "|") \o Flatten(Tail(parts))

TokensOf(tag) == Flatten(Split(SubSeq(tag, 6, Len(tag)), ","))

Word(tok) == TrimSpace(tok)

IsAccess(tok) == Word(tok) \in {"ro", "wo", "rw"}

IsWord(tok) == Word(tok) \in {"ro", "wo", "rw", "create", "truncate", "append"}

\* the position of the last access-mode token, 0 if there is none
LastAccess(toks) ==
    IF \E i \in 1..Len(toks) : IsAccess(toks[i])
    THEN CHOOSE i \in 1..Len(toks) :
             IsAccess(toks[i]) /\ \A j \in (i + 1)..Len(toks) : ~IsAccess(toks[j])
    ELSE 0

\* a modifier is in force if it is written after the last access-mode token
After(toks, word) == \E i \in (LastAccess(toks) + 1)..Len(toks) : Word(toks[i]) = word

\* the tokens that are octal numbers of at most 32 bits
Octals(toks) == {i \in 1..Len(toks) : ~IsWord(toks[i]) /\ ParseOctal(toks[i]).ok}

Filed == pc = "filed"

\* C30: with the file: prefix the access mode is the one of the last
\* access-mode token (read-only if there is none) and a modifier is set
\* exactly when it is written after that token; the permissions are those of
\* the last octal token, 0666 if there is none; every other token changes
\* nothing; without the prefix the result is read-only with 0666.
C30_FileOptions ==
    Filed =>
        IF HasPrefix(tagIn, "file:")
        THEN LET toks == TokensOf(tagIn)
                 a    == LastAccess(toks)
             IN  /\ tagOut.flag.mode = (IF a = 0 THEN "ro" ELSE Word(toks[a]))
                 /\ tagOut.flag.create <=> After(toks, "create")
                 /\ tagOut.flag.truncate <=> After(toks, "truncate")
                 /\ tagOut.flag.append <=> After(toks, "append")
                 /\ tagOut.perm =
                        (IF Octals(toks) = {} THEN "666"
                         ELSE StripZeros(toks[CHOOSE i \in Octals(toks) :
                                                  \A j \in Octals(toks) : j <= i]))
        ELSE tagOut = [flag |-> Flags("ro"), perm |-> "666"]

\* "file:create|rw" gives read-write without create
C30_Witness ==
    /\ Filed
    /\ tagIn = "file:create|rw"
    /\ tagOut = [flag |-> Flags("rw"), perm |-> "666"]

====
